---------------------------- MODULE Spec2Model ----------------------------
(***************************************************************************)
(* A model of code/run_all.py, the validator of the replication bundle:    *)
(* read_csv, require_columns, ok_iso_date, unique, load_provenance_ids,    *)
(* warn_unknown_values, the SCHEMAS registry, validate_file and            *)
(* validate_all.                                                           *)
(*                                                                         *)
(* Python strings are TLA+ strings (TLC evaluates Len, SubSeq and \o on    *)
(* them); a Python list is a sequence, a set a set, a dict a function on   *)
(* its keys together with the sequence of its keys in insertion order.     *)
(* A finding (an f-string of the source) is a record holding the text of   *)
(* the template and the values substituted into it.                        *)
(***************************************************************************)
EXTENDS Integers, Sequences, FiniteSets, TLC

VARIABLES
    pc,            \* position of the process: which call has been made
    strict,        \* the --strict flag of the run
    prov_ids,      \* the identifier index handed to validate_file
    name,          \* SpecFile: the table validate_file was called on
    file,          \* SpecFile: the file at DATA / name
    errs,          \* SpecFile: errors returned by the last validate_file call
    warns,         \* SpecFile: warnings returned by the last validate_file call
    errs0,         \* SpecFile: errors returned by the call before the re-run
    warns0,        \* SpecFile: warnings returned by the call before the re-run
    value,         \* SpecFile: the argument of the last ok_iso_date call
    accepted,      \* SpecFile: the result of the last ok_iso_date call
    prov,          \* Spec: the provenance directory (sources.csv, sources.xlsx)
    idx,           \* Spec: load_provenance_ids' idx, the column of the identifiers
    rown,          \* Spec: the next sheet row load_provenance_ids reads
    failed,        \* Spec: whether load_provenance_ids went through its except clause
    pos,           \* Spec: validate_all's position in SCHEMAS.keys()
    returned,      \* Spec: the (name, errs, warns) of every validate_file call so far
    all_errors,    \* Spec: validate_all's all_errors
    all_warnings,  \* Spec: validate_all's all_warnings
    exit_code,     \* Spec: validate_all's exit_code
    out            \* Spec: the lines printed by validate_all

vars == <<pc, strict, prov_ids, name, file, errs, warns, errs0, warns0, value,
          accepted, prov, idx, rown, failed, pos, returned, all_errors, all_warnings, exit_code, out>>

---------------------------------------------------------------------------
(* Strings *)

None == "<None>"

\* The characters of the model's inputs, in code point order.
CodePoints == "\t -./0123456789ABCDEFGHIJKLMNOPQRSTUVWXYZ_abcdefghijklmnopqrstuvwxyz"

Ch(s, i) == SubSeq(s, i, i)

\* ord(c), up to the order of the characters
OrdOf == [c \in {Ch(CodePoints, i) : i \in 1..Len(CodePoints)} |->
            CHOOSE i \in 1..Len(CodePoints) : Ch(CodePoints, i) = c]

Ord(c) == OrdOf[c]

\* str.__lt__: lexicographic by code point, a proper prefix first.
RECURSIVE StrLess(_, _)
StrLess(a, b) ==
    IF Len(b) = 0 THEN FALSE
    ELSE IF Len(a) = 0 THEN TRUE
    ELSE IF Ch(a, 1) = Ch(b, 1) THEN StrLess(Tail(a), Tail(b))
    ELSE Ord(Ch(a, 1)) < Ord(Ch(b, 1))

\* xs with x put before its first element that is not below x
RECURSIVE Insert(_, _)
Insert(xs, x) ==
    IF xs = <<>> THEN <<x>>
    ELSE IF StrLess(Head(xs), x) THEN <<Head(xs)>> \o Insert(Tail(xs), x)
    ELSE <<x>> \o xs

\* sorted(S) for a set (or the distinct values of a list) of strings.
RECURSIVE sorted(_)
sorted(S) ==
    IF S = {} THEN <<>>
    ELSE LET x == CHOOSE y \in S : TRUE
         IN  Insert(sorted(S \ {x}), x)

\* xs[:n]
Take(xs, n) == SubSeq(xs, 1, IF Len(xs) < n THEN Len(xs) ELSE n)

IsSpace(c) == c \in {" ", "\t"}

RECURSIVE lstrip(_)
lstrip(s) == IF Len(s) > 0 /\ IsSpace(Ch(s, 1)) THEN lstrip(Tail(s)) ELSE s

RECURSIVE rstrip(_)
rstrip(s) ==
    IF Len(s) > 0 /\ IsSpace(Ch(s, Len(s))) THEN rstrip(SubSeq(s, 1, Len(s) - 1)) ELSE s

\* str.strip()
strip(s) == rstrip(lstrip(s))

IsDigit(c) == c \in {"0", "1", "2", "3", "4", "5", "6", "7", "8", "9"}

DigitVal(c) == Ord(c) - Ord("0")

\* int(s) for a string of digits
RECURSIVE int(_)
int(s) == IF Len(s) = 0 THEN 0 ELSE 10 * int(SubSeq(s, 1, Len(s) - 1)) + DigitVal(Ch(s, Len(s)))

\* re.fullmatch of a pattern made of literal characters and \d, written here
\* with "#" for \d ("^T1-\d{3}$" is "T1-###"): None or a match.
fullmatch(pattern, s) ==
    /\ Len(s) = Len(pattern)
    /\ \A i \in 1..Len(pattern) :
          IF Ch(pattern, i) = "#" THEN IsDigit(Ch(s, i)) ELSE Ch(s, i) = Ch(pattern, i)

Range(xs) == {xs[i] : i \in 1..Len(xs)}

\* The list [f[1], ..., f[n]] as a tuple
List(f) == <<>> \o f

\* [x for x in xs if P(x)]
RECURSIVE Filter(_, _)
Filter(xs, keep) ==
    IF xs = <<>> THEN <<>>
    ELSE (IF Head(xs) \in keep THEN <<Head(xs)>> ELSE <<>>) \o Filter(Tail(xs), keep)

\* Counter(xs)[v]
Count(xs, v) == Cardinality({i \in 1..Len(xs) : xs[i] = v})

---------------------------------------------------------------------------
(* CSV helpers *)

\* A file of DATA or PROV: whether it exists and its lines as csv.reader
\* yields them, each a list of cells as written (not trimmed).
Absent == [exists |-> FALSE, lines |-> <<>>]

CsvFile(lines) == [exists |-> TRUE, lines |-> lines]

\* The header of read_csv: every header cell trimmed.
Headers(f) == List([i \in 1..Len(f.lines[1]) |-> strip(f.lines[1][i])])

\* list(row.keys()): the header names in order of first occurrence.
RECURSIVE Keys(_)
Keys(headers) ==
    IF headers = <<>> THEN <<>>
    ELSE LET init == Keys(SubSeq(headers, 1, Len(headers) - 1))
             last == headers[Len(headers)]
         IN  IF last \in Range(init) THEN init ELSE Append(init, last)

\* One row of read_csv: a dict, its keys in insertion order and the value
\* of each, from header name to the trimmed cell, "" for a cell the line
\* does not have; of two columns of one name the later wins.
Row(headers, raw) ==
    LET keys == Keys(headers)
    IN  [keys |-> keys,
         vals |-> List([k \in 1..Len(keys) |->
                     LET i == CHOOSE j \in 1..Len(headers) :
                                 /\ headers[j] = keys[k]
                                 /\ \A m \in (j + 1)..Len(headers) : headers[m] # keys[k]
                     IN  IF i <= Len(raw) THEN strip(raw[i]) ELSE ""])]

\* read_csv: the rows after the header; [] for a missing or empty file.
read_csv(f) ==
    IF ~f.exists THEN <<>>
    ELSE IF f.lines = <<>> THEN <<>>
    ELSE LET headers == Headers(f)
         IN  List([i \in 1..(Len(f.lines) - 1) |-> Row(headers, f.lines[i + 1])])

\* r.get(col): None for a column the row does not have.
Get(r, col) ==
    IF \E k \in 1..Len(r.keys) : r.keys[k] = col
    THEN r.vals[CHOOSE k \in 1..Len(r.keys) : r.keys[k] = col]
    ELSE None

\* (r.get(col) or "").strip()
GetStripped(r, col) == IF Get(r, col) = None THEN "" ELSE strip(Get(r, col))

\* A finding: the template of the f-string and what is substituted into it.
Finding(template, col, count, expected, shown, more, cells) ==
    [template |-> template, col |-> col, count |-> count, expected |-> expected,
     shown |-> shown, more |-> more, cells |-> cells]

\* The texts of the findings, {x} where the f-string substitutes x
MissingFileMsg == "missing file: {col}"

NoRowsMsg == "file has no rows (or is empty)"

NoRowsAfterHeaderMsg == "file has no rows (after header) or is empty"

MissingColumnsMsg == "missing required columns: {shown}"

BlankHeaderMsg == "blank column name in header"

FormatMsg == "{col} format violations (expected {expected}): {shown}{more}"

DuplicateIdMsg == "{col} duplicate values: {shown}{more}"

EnumMsg == "{col}: {count} value(s) not in {expected} - {shown}{more}"

DateMsg == "{col}: invalid ISO date(s) (YYYY[-MM[-DD]]): {shown}{more}"

RecommendedMsg == "{col}: found {count} value(s) not in recommended set: {shown}"

DuplicateTermMsg == "{col}: duplicate values: {shown}{more}"

CrossRefMsg == "{col}: {count} value(s) not found in provenance sources: {shown}{more}"

HygieneMsg == "trailing whitespace in {count} cell(s) (first 10 shown): {cells}"

Plain(template) == Finding(template, "", 0, <<>>, <<>>, FALSE, <<>>)

\* The list cap of the findings: xs[:10] and '...' if len(xs) > 10.
MaxShown == 10

\* require_columns naming only the first missing column
require_columns_first(rows, required) ==
    IF rows = <<>> THEN <<Plain(NoRowsAfterHeaderMsg)>>
    ELSE LET headers == rows[1].keys
             miss == Filter(required, {c \in Range(required) : c \notin Range(headers)})
         IN  IF miss # <<>>
             THEN <<Finding(MissingColumnsMsg, "", 0, <<>>, <<Head(miss)>>, FALSE, <<>>)>>
             ELSE <<>>

require_columns(rows, required) ==
    IF rows = <<>> THEN <<Plain(NoRowsAfterHeaderMsg)>>
    ELSE LET headers == rows[1].keys
             miss == Filter(required, {c \in Range(required) : c \notin Range(headers)})
         IN  IF miss # <<>>
             THEN <<Finding(MissingColumnsMsg, "", 0, <<>>, miss, FALSE, <<>>)>>
             ELSE <<>>

\* A leap year every fourth year, the century rule forgotten
IsLeap_julian(y) == y % 4 = 0

\* calendar.monthrange as datetime() checks it
IsLeap(y) == y % 4 = 0 /\ (y % 100 # 0 \/ y % 400 = 0)

DaysInMonth(y, m) ==
    IF m = 2 THEN (IF IsLeap(y) THEN 29 ELSE 28)
    ELSE IF m \in {4, 6, 9, 11} THEN 30 ELSE 31

\* datetime(y, m, d) does not raise ValueError
DatetimeOk(y, m, d) ==
    /\ 1 <= y /\ y <= 9999
    /\ 1 <= m /\ m <= 12
    /\ 1 <= d /\ d <= DaysInMonth(y, m)

ok_iso_date(v) ==
    IF v = None \/ v = "" THEN FALSE
    ELSE LET s == strip(v)
         IN  IF fullmatch("####", s)
             THEN ~(int(s) < 1 \/ int(s) > 9999)
             ELSE IF fullmatch("####-##", s)
             THEN LET y == int(SubSeq(s, 1, 4)) IN
                  IF y < 1 \/ y > 9999 THEN FALSE
                  ELSE DatetimeOk(y, int(SubSeq(s, 6, 7)), 1)
             ELSE IF fullmatch("####-##-##", s)
             THEN LET y == int(SubSeq(s, 1, 4)) IN
                  IF y < 1 \/ y > 9999 THEN FALSE
                  ELSE DatetimeOk(y, int(SubSeq(s, 6, 7)), int(SubSeq(s, 9, 10)))
             ELSE FALSE

\* unique without the filter of the empty values
unique_counting_empty(values) == Cardinality(Range(values)) = Len(values)

unique(values) ==
    LET seen == Filter(values, {v \in Range(values) : v \notin {"", None}})
    IN  Cardinality(Range(seen)) = Len(seen)

warn_unknown_values(rows, col, allowed) ==
    LET seen == {GetStripped(rows[i], col) : i \in 1..Len(rows)} \ ({""} \cup allowed)
    IN  IF seen # {}
        THEN <<Finding(RecommendedMsg,
                       col, Cardinality(seen), <<>>, sorted(seen), FALSE, <<>>)>>
        ELSE <<>>

---------------------------------------------------------------------------
(* Schemas *)

T1 == "table1_promises_vs_outcomes.csv"
AppB == "appendix_b_evidence_to_claim.csv"
AppC == "appendix_c_indicators.csv"
AppE == "appendix_e_timelines.csv"
Abbr == "abbreviations.csv"

\* SCHEMAS.keys(), in insertion order
TableNames == <<T1, AppB, AppC, AppE, Abbr>>

\* schema.get(key) is None for a key the schema does not have; "enums" is
\* the list of the dict's (column, allowed set) items.
Schema(required, id_col, id_regex, enums, date_col, recommended_scopes, unique_col) ==
    [required |-> required, id_col |-> id_col, id_regex |-> id_regex, enums |-> enums,
     date_col |-> date_col, recommended_scopes |-> recommended_scopes,
     unique_col |-> unique_col]

SCHEMAS ==
    T1 :> Schema(<<"section", "promise", "administration", "reality", "sources">>,
                 "t1_id", "T1-###", <<>>, None, {}, None)
    @@ AppB :> Schema(<<"domain", "claim_id", "claim_text", "test_type", "method",
                        "sources", "notes">>,
                      "claim_id", "B-###",
                      << <<"test_type",
                           {"straw_in_the_wind", "hoop", "smoking_gun", "doubly_decisive"}>> >>,
                      None, {}, None)
    @@ AppC :> Schema(<<"indicator", "definition", "unit", "source_id", "frequency",
                        "notes">>,
                      "indicator_id", "C-###",
                      << <<"frequency",
                           {"annual", "quarterly", "monthly", "weekly", "daily", "ad hoc"}>> >>,
                      None, {}, None)
    @@ AppE :> Schema(<<"domain", "date", "event", "source_id">>,
                      "event_id", "E-###",
                      << <<"date_precision", {"day", "month", "year"}>> >>,
                      "date", {}, None)
    @@ Abbr :> Schema(<<"term", "expansion", "scope">>,
                      None, None, <<>>, None,
                      {"Law", "Agency", "Oversight", "Index/Metric", "NGO", "Think Tank/NGO",
                       "Intl. Org", "Non-state actor", "Policy", "Program", "Law/Authority",
                       "Company", "Court", "General", "Tech", "Admin/NEPA", "Agency/Grants",
                       "Budget/Accounting", "Law/Program", "NGO/Media", "Presidential Action"},
                      "term")

---------------------------------------------------------------------------
(* Validators *)

\* {shown}{more} of a finding: xs[:10] and '...' if len(xs) > 10
Shown(xs) == Take(xs, MaxShown)

More(n) == n > MaxShown

Column(rows, col) == List([i \in 1..Len(rows) |-> GetStripped(rows[i], col)])

\* BadIds without "v and": the empty identifier is matched too
BadIds_any(ids, id_re) == {v \in Range(ids) : ~fullmatch(id_re, v)}

\* line 235: the non-empty identifiers that do not match the pattern
BadIds(ids, id_re) == {v \in Range(ids) : v # "" /\ ~fullmatch(id_re, v)}

\* line 239: the non-empty identifiers that occur more than once
Dupes(ids) == {v \in Range(ids) : v # "" /\ Count(ids, v) > 1}

\* lines 230-240: identifier format and uniqueness
IdErrors(schema, rows, headers) ==
    LET id_col == schema.id_col
        id_re  == schema.id_regex
    IN  IF id_col # None /\ id_col \in Range(headers)
        THEN LET ids   == Column(rows, id_col)
                 bad   == BadIds(ids, id_re)
                 dupes == Dupes(ids)
             IN  (IF bad # {}
                  THEN <<Finding(FormatMsg,
                                 id_col, 0, <<id_re>>, Shown(sorted(bad)),
                                 More(Cardinality(bad)), <<>>)>>
                  ELSE <<>>)
                 \o
                 (IF ~unique(ids)
                  THEN <<Finding(DuplicateIdMsg,
                                 id_col, 0, <<>>, Shown(sorted(dupes)),
                                 More(Cardinality(dupes)), <<>>)>>
                  ELSE <<>>)
        ELSE <<>>

\* Invalid without "r.get(col) and": the empty value is checked too
Invalid_with_empty(rows, col, allowed) ==
    {GetStripped(rows[i], col) : i \in
        {j \in 1..Len(rows) : GetStripped(rows[j], col) \notin allowed}}

\* line 245: the non-empty values of a column that are not allowed
Invalid(rows, col, allowed) ==
    {GetStripped(rows[i], col) : i \in
        {j \in 1..Len(rows) : /\ Get(rows[j], col) \notin {None, ""}
                              /\ strip(Get(rows[j], col)) \notin allowed}}

\* lines 243-247: one enumerated column
EnumError(rows, headers, col, allowed) ==
    IF col \in Range(headers)
    THEN LET invalid == sorted(Invalid(rows, col, allowed))
         IN  IF invalid # <<>>
             THEN <<Finding(EnumMsg,
                            col, Len(invalid), sorted(allowed), Shown(invalid),
                            More(Len(invalid)), <<>>)>>
             ELSE <<>>
    ELSE <<>>

\* lines 243-247: the loop over schema.get("enums", {}).items()
RECURSIVE EnumErrors(_, _, _)
EnumErrors(enums, rows, headers) ==
    IF enums = <<>> THEN <<>>
    ELSE EnumError(rows, headers, Head(enums)[1], Head(enums)[2])
         \o EnumErrors(Tail(enums), rows, headers)

\* line 252: the non-empty values of the date column ok_iso_date rejects
BadDates(rows, date_col) ==
    {GetStripped(rows[i], date_col) : i \in
        {j \in 1..Len(rows) : /\ Get(rows[j], date_col) \notin {None, ""}
                              /\ ~ok_iso_date(Get(rows[j], date_col))}}

\* lines 250-254: the date column
DateErrors(schema, rows) ==
    LET date_col == schema.date_col
    IN  IF date_col # None
        THEN LET bad_dates == sorted(BadDates(rows, date_col))
             IN  IF bad_dates # <<>>
                 THEN <<Finding(DateMsg,
                                date_col, 0, <<>>, Shown(bad_dates),
                                More(Len(bad_dates)), <<>>)>>
                 ELSE <<>>
        ELSE <<>>

\* lines 257-265: recommended values and duplicate terms of abbreviations.csv
SoftWarnings(n, rows, headers) ==
    IF n = Abbr
    THEN (IF "scope" \in Range(headers)
          THEN warn_unknown_values(rows, "scope", SCHEMAS[n].recommended_scopes)
          ELSE <<>>)
         \o
         (LET ucol == SCHEMAS[n].unique_col
          IN  IF ucol # None /\ ucol \in Range(headers)
              THEN LET terms == Filter(Column(rows, ucol), Range(Column(rows, ucol)) \ {""})
                       dupes == {v \in Range(terms) : Count(terms, v) > 1}
                   IN  IF dupes # {}
                       THEN <<Finding(DuplicateTermMsg,
                                      ucol, 0, <<>>, Shown(sorted(dupes)),
                                      More(Cardinality(dupes)), <<>>)>>
                       ELSE <<>>
              ELSE <<>>)
    ELSE <<>>

\* CrossChecked without "and prov_ids": an empty index is checked against
CrossChecked_any_index(n, ids) == n \in {AppC, AppE}

\* line 268: whether the table is cross-checked against the index
CrossChecked(n, ids) == n \in {AppC, AppE} /\ ids # {}

\* lines 268-275: source_id values not in the provenance index; the caller
\* puts the finding in errors or in warnings
CrossRef(n, rows, headers, ids) ==
    IF CrossChecked(n, ids)
    THEN LET col == "source_id"
         IN  IF col \in Range(headers)
             THEN LET missing == sorted({GetStripped(rows[i], col) : i \in 1..Len(rows)}
                                        \ ({""} \cup ids))
                  IN  IF missing # <<>>
                      THEN <<Finding(CrossRefMsg,
                                     col, Len(missing), <<>>, Shown(missing),
                                     More(Len(missing)), <<>>)>>
                      ELSE <<>>
             ELSE <<>>
    ELSE <<>>

\* lines 278-286: the (row number, column) of the cells with v != v.strip(),
\* rows numbered from 2, in row order then key order, until 10 are found
Trailing(rows) ==
    LET cells == {c \in (1..Len(rows)) \X (1..Len(rows[1].keys)) :
                     rows[c[1]].vals[c[2]] # strip(rows[c[1]].vals[c[2]])}
        Before(c, d) == c[1] < d[1] \/ (c[1] = d[1] /\ c[2] < d[2])
        Rank(c) == Cardinality({d \in cells : Before(d, c)}) + 1
        found == IF Cardinality(cells) < MaxShown THEN Cardinality(cells) ELSE MaxShown
    IN  List([r \in 1..found |->
                LET c == CHOOSE d \in cells : Rank(d) = r
                IN  <<c[1] + 1, rows[c[1]].keys[c[2]]>>])

\* lines 278-288: CSV hygiene
Hygiene(rows) ==
    LET trailing == Trailing(rows)
    IN  IF trailing # <<>>
        THEN <<Finding(HygieneMsg,
                       "", Len(trailing), <<>>, <<>>, FALSE, trailing)>>
        ELSE <<>>

\* --strict moving every warning found so far to the errors
AppendBySeverity_promote_all(isStrict, errors, warnings, msg) ==
    IF isStrict THEN <<errors \o warnings \o msg, <<>> >> ELSE <<errors, warnings \o msg>>

\* line 275: (errors if strict else warnings).append(msg), msg being the
\* cross-reference finding if there is one
AppendBySeverity(isStrict, errors, warnings, msg) ==
    IF isStrict THEN <<errors \o msg, warnings>> ELSE <<errors, warnings \o msg>>

\* validate_file(name, strict, prov_ids), f the file at DATA / name:
\* the pair (errors, warnings)
validate_file(n, isStrict, ids, f) ==
    IF ~f.exists THEN <<  <<Finding(MissingFileMsg, n, 0, <<>>, <<>>, FALSE, <<>>)>>, <<>> >>
    ELSE LET rows == read_csv(f) IN
    IF rows = <<>> THEN << <<Plain(NoRowsMsg)>>, <<>> >>
    ELSE LET schema   == SCHEMAS[n]
             required == require_columns(rows, schema.required)
         IN
    IF required # <<>> THEN <<required, <<>> >>
    ELSE LET headers == rows[1].keys
             blank   == IF "" \in Range(headers)
                        THEN <<Plain(BlankHeaderMsg)>> ELSE <<>>
             placed  == AppendBySeverity(isStrict,
                                         blank \o IdErrors(schema, rows, headers)
                                               \o EnumErrors(schema.enums, rows, headers)
                                               \o DateErrors(schema, rows),
                                         SoftWarnings(n, rows, headers),
                                         CrossRef(n, rows, headers, ids))
         IN  <<placed[1], placed[2] \o Hygiene(rows)>>

---------------------------------------------------------------------------
(* load_provenance_ids *)

\* A sheet of sources.xlsx: the values of the cells of its header row and
\* of the rows below it, None for an empty cell; a sheet with no row at all
\* has hasHeader = FALSE.
NoSheet == [exists |-> FALSE, hasHeader |-> FALSE, header |-> <<>>, rows |-> <<>>]

Sheet(header, rows) == [exists |-> TRUE, hasHeader |-> TRUE, header |-> header, rows |-> rows]

EmptySheet == [exists |-> TRUE, hasHeader |-> FALSE, header |-> <<>>, rows |-> <<>>]

\* The provenance directory: sources.csv and sources.xlsx
Dir(csv, xlsx) == [csv |-> csv, xlsx |-> xlsx]

NoDir == Dir(Absent, NoSheet)

\* lines 116-126: add_csv, the identifiers of sources.csv
add_csv(f) ==
    LET rows == read_csv(f)
    IN  IF rows = <<>> THEN {}
        ELSE LET header_keys == rows[1].keys
                 key == IF "source_id" \in Range(header_keys) THEN "source_id"
                        ELSE IF "id" \in Range(header_keys) THEN "id" ELSE None
             IN  IF key # None
                 THEN {GetStripped(rows[i], key) : i \in 1..Len(rows)} \ {""}
                 ELSE {}

\* line 135: the header of the sheet, every cell as a trimmed string
XlsxHeader(sheet) ==
    List([i \in 1..Len(sheet.header) |->
            IF sheet.header[i] # None THEN strip(sheet.header[i]) ELSE ""])

\* lines 136-140: the index of the first of "source_id", "id" in the header,
\* 0 for None (header.index is 0-based: the model's columns are 1-based)
IdColumn(header) ==
    IF "source_id" \in Range(header)
    THEN CHOOSE i \in 1..Len(header) :
            header[i] = "source_id" /\ \A j \in 1..(i - 1) : header[j] # "source_id"
    ELSE IF "id" \in Range(header)
    THEN CHOOSE i \in 1..Len(header) : header[i] = "id" /\ \A j \in 1..(i - 1) : header[j] # "id"
    ELSE 0

---------------------------------------------------------------------------
(* validate_all *)

NoFindings == [n \in Range(TableNames) |-> <<>>]

\* exit_code set from the last table alone
ExitCode_last(code, errors) == IF errors # <<>> THEN 1 ELSE 0

\* lines 300-301: exit_code after one table
ExitCode(code, errors) == IF errors # <<>> THEN 1 ELSE code

\* lines 300-304: all_errors[name].extend(errs) if errs, and the same for warnings
Extend(all, n, findings) ==
    IF findings # <<>> THEN [all EXCEPT ![n] = @ \o findings] ELSE all

\* A printed line: its kind, and the table name or the finding it prints
Line(kind, n, finding) == [kind |-> kind, name |-> n, finding |-> finding]

Findings(kind, n, findings) ==
    List([i \in 1..Len(findings) |-> Line(kind, n, findings[i])])

\* TableLines printing OK only for a table with no finding at all
TableLines_ok_clean(n, errors, warnings) ==
    <<Line("table", n, Plain(""))>>
    \o (IF errors # <<>> THEN Findings("ERROR", n, errors)
        ELSE IF warnings = <<>> THEN <<Line("OK", n, Plain(""))>> ELSE <<>>)
    \o Findings("warning", n, warnings)

\* lines 308-315: the lines of one table
TableLines(n, errors, warnings) ==
    <<Line("table", n, Plain(""))>>
    \o (IF errors # <<>> THEN Findings("ERROR", n, errors) ELSE <<Line("OK", n, Plain(""))>>)
    \o Findings("warning", n, warnings)

\* lines 306-320: the report
RECURSIVE ReportLines(_, _, _)
ReportLines(names, errors, warnings) ==
    IF names = <<>> THEN <<>>
    ELSE TableLines(Head(names), errors[Head(names)], warnings[Head(names)])
         \o ReportLines(Tail(names), errors, warnings)

---------------------------------------------------------------------------
(* The files the model validates *)

\* Rows of the short tables: 0..MaxSmall data rows.
MaxSmall == 3

\* The row counts of the tables: the short ones, and those that put exactly
\* MaxShown and more than MaxShown distinct values, or duplicated values,
\* into one column.
RowCounts == (0..MaxSmall) \cup {MaxShown, MaxShown + 1, 2 * MaxShown, 2 * MaxShown + 2}

Digits == "0123456789"

D2(k) == Ch(Digits, ((k \div 10) % 10) + 1) \o Ch(Digits, (k % 10) + 1)

D3(k) == Ch(Digits, ((k \div 100) % 10) + 1) \o D2(k)

\* The n-th value of a list, cyclically
Cycle(xs, i) == xs[((i - 1) % Len(xs)) + 1]

\* Identifier cells of row i, by pattern
IdCell(prefix, p, i) ==
    CASE p = "uniq"     -> prefix \o "-" \o D3(i)
      [] p = "pairs"    -> prefix \o "-" \o D3((i + 1) \div 2)
      [] p = "bad"      -> prefix \o "-" \o D2(i)
      [] p = "badpairs" -> prefix \o "-" \o D2((i + 1) \div 2)
      [] p = "padded"   -> " " \o prefix \o "-" \o D3(i) \o "\t"
      [] p = "mixed"    -> Cycle(<<prefix \o "-001", "", prefix \o "-1", prefix \o "-001", " ">>, i)
      [] OTHER          -> ""

IdPatterns == {"uniq", "pairs", "bad", "badpairs", "padded", "mixed", "empty"}

\* Cells of an enumerated (or recommended-value) column of row i
EnumCell(allowed, p, i) ==
    CASE p = "ok"     -> Cycle(allowed, i)
      [] p = "bad"    -> "v" \o D2(i)
      [] p = "padded" -> " " \o Cycle(allowed, i) \o " "
      [] p = "mixed"  -> Cycle(<<Cycle(allowed, i), "silver_bullet", "", "silver_bullet">>, i)
      [] OTHER        -> ""

EnumPatterns == {"ok", "bad", "padded", "mixed", "empty"}

\* The strings ok_iso_date is applied to
DateStrings ==
    <<"2023", "2023-02", "2023-02-28", "2023-02-30", "2023-13", "2024-02-29", "2023-02-29",
      "1900-02-29", "2000-02-29", "0000", "0001", "9999", "0000-01", "0000-01-01",
      "2023-00", "2023-12", "2023-01-00", "2023-04-31", "2023-04-30", "2023-12-31",
      "2023-12-32", "2023-1", "23", "12345", "20230228", "2023/02/28", "2023-02-28 ",
      " 2023", "\t2023-02\t", "", " ", "abcd", "2023-", "2023-02-", "2023-2-28",
      "2023-02-2", "2023-02-28-01", "-2023", "2023.02">>

DateCell(p, i) ==
    CASE p = "ok"    -> Cycle(<<"2023", "2023-02", "2023-02-28", "2024-02-29">>, i)
      [] p = "bad"   -> "2023-02-" \o D2(29 + i)
      [] p = "mixed" -> Cycle(<<"2023-02-30", "2023", "2023-13", "", "2023-02-30", " 2023-02 ">>, i)
      [] p = "pool"  -> Cycle(DateStrings, i)
      [] OTHER       -> ""

DatePatterns == {"ok", "bad", "mixed", "pool", "empty"}

\* source_id cells of row i
RefCell(p, i) ==
    CASE p = "known"   -> Cycle(<<"S-001", "S-002">>, i)
      [] p = "unknown" -> "X-" \o D3(i)
      [] p = "mixed"   -> Cycle(<<"S-001", "X-001", "", " X-001", "S-002 ">>, i)
      [] OTHER         -> ""

RefPatterns == {"known", "unknown", "mixed", "empty"}

\* The identifier indexes handed to validate_file
IndexPool == {{}, {"S-001", "S-002"}}

\* The columns of a table beyond the required ones: the identifier column
\* and the enumerated columns
ExtraColumns(n) ==
    LET sch == SCHEMAS[n]
        ids == IF sch.id_col = None \/ sch.id_col \in Range(sch.required)
               THEN <<>> ELSE <<sch.id_col>>
        ens == IF sch.enums = <<>> \/ sch.enums[1][1] \in Range(sch.required)
               THEN <<>> ELSE <<sch.enums[1][1]>>
    IN  ids \o ens

Without(xs, drop) == Filter(xs, Range(xs) \ drop)

HeaderKinds == {"full", "required", "miss1", "miss2", "blank", "padded", "twice"}

\* The header line of a table, by kind
HeaderLine(n, kind) ==
    LET req  == SCHEMAS[n].required
        full == ExtraColumns(n) \o req
    IN  CASE kind = "full"     -> full
          [] kind = "required" -> req
          [] kind = "miss1"    -> Without(full, {req[Len(req)]})
          [] kind = "miss2"    -> Without(full, {req[1], req[Len(req)]})
          [] kind = "blank"    -> Append(full, "")
          [] kind = "padded"   -> List([i \in 1..Len(full) |-> " " \o full[i] \o " "])
          [] kind = "twice"    -> Append(full, req[1])

\* The legal (or recommended) values of table n's enumerated column
Legal(n) ==
    IF SCHEMAS[n].enums # <<>> THEN sorted(SCHEMAS[n].enums[1][2])
    ELSE sorted(SCHEMAS[n].recommended_scopes)

\* The cell of column col in data row i of table n
Cell(n, legal, col, pat, i) ==
    LET sch == SCHEMAS[n]
    IN  CASE col = sch.id_col         -> IdCell(SubSeq(sch.id_regex, 1, Len(sch.id_regex) - 4), pat.id, i)
          [] col = sch.unique_col     -> IdCell("AB", pat.id, i)
          [] col = sch.date_col       -> DateCell(pat.date, i)
          [] col = "source_id"        -> RefCell(pat.ref, i)
          [] col = "scope"            -> EnumCell(legal, pat.enum, i)
          [] sch.enums # <<>> /\ col = sch.enums[1][1]
                                      -> EnumCell(legal, pat.enum, i)
          [] OTHER                    -> "x"

Good == [id |-> "uniq", enum |-> "ok", date |-> "ok", ref |-> "known"]

Bad == [id |-> "badpairs", enum |-> "bad", date |-> "bad", ref |-> "unknown"]

\* The patterns of the tables: all columns good, all bad, and one column
\* class at a time in each of its patterns beside good columns
Patterns(n) ==
    LET sch == SCHEMAS[n]
    IN  {Good, Bad}
        \cup (IF sch.id_col # None \/ sch.unique_col # None
              THEN {[Good EXCEPT !.id = p] : p \in IdPatterns} ELSE {})
        \cup (IF sch.enums # <<>> \/ sch.recommended_scopes # {}
              THEN {[Good EXCEPT !.enum = p] : p \in EnumPatterns} ELSE {})
        \cup (IF sch.date_col # None
              THEN {[Good EXCEPT !.date = p] : p \in DatePatterns} ELSE {})
        \cup (IF "source_id" \in Range(sch.required)
              THEN {[Good EXCEPT !.ref = p] : p \in RefPatterns}
                   \cup {[Bad EXCEPT !.ref = p] : p \in RefPatterns} ELSE {})

\* A file of table n: header line of the kind, rows data rows; a short line
\* (short > 0) lacks its last cells
Table(n, kind, rows, pat, short) ==
    LET header == HeaderLine(n, kind)
        cols   == List([i \in 1..Len(header) |-> strip(header[i])])
        legal  == Legal(n)
    IN  CsvFile(<<header>> \o
                List([i \in 1..rows |->
                    List([k \in 1..(IF i = rows /\ short > 0
                                    THEN Len(cols) - short ELSE Len(cols)) |->
                            Cell(n, legal, cols[k], pat, i)])]))

\* Whether f is one of the files validate_file is called on in SpecFile:
\* a missing file, an empty one, a table with the full header in every
\* row count and pattern, or a short table with a header of any kind
IsFileOf(n, f) ==
    \/ f = Absent
    \/ f = CsvFile(<<>>)
    \/ \E r \in RowCounts, pat \in Patterns(n) : f = Table(n, "full", r, pat, 0)
    \/ \E kind \in HeaderKinds, r \in 0..MaxSmall, pat \in {Good, Bad}, short \in {0, 1} :
          f = Table(n, kind, r, pat, short)

---------------------------------------------------------------------------
(* SpecFile: one call of validate_file, its re-run with the strict flag    *)
(* toggled, and one call of ok_iso_date                                    *)

NoResult == <<>>

InitFile ==
    /\ pc = "idle"
    /\ strict = FALSE
    /\ prov_ids = {}
    /\ name = None
    /\ file = Absent
    /\ errs = NoResult
    /\ warns = NoResult
    /\ errs0 = NoResult
    /\ warns0 = NoResult
    /\ value = None
    /\ accepted = FALSE
    /\ prov = NoDir
    /\ idx = 0
    /\ rown = 0
    /\ failed = FALSE
    /\ pos = 0
    /\ returned = <<>>
    /\ all_errors = NoFindings
    /\ all_warnings = NoFindings
    /\ exit_code = 0
    /\ out = <<>>

RunVars == <<prov, idx, rown, failed, pos, returned, all_errors, all_warnings, exit_code, out>>

\* validate_file(name, strict, prov_ids) on the file at DATA / name
ValidateFileCall ==
    /\ pc = "idle"
    /\ \E i \in 1..Len(TableNames), s \in BOOLEAN, ids \in IndexPool :
         /\ name' = TableNames[i]
         /\ strict' = s
         /\ prov_ids' = ids
         /\ IsFileOf(TableNames[i], file')
         /\ LET res == validate_file(TableNames[i], s, ids, file')
            IN  /\ errs' = res[1]
                /\ warns' = res[2]
    /\ pc' = "validated"
    /\ UNCHANGED <<errs0, warns0, value, accepted, RunVars>>

\* The same file validated again with --strict toggled
Revalidate ==
    /\ pc = "validated"
    /\ LET res == validate_file(name, ~strict, prov_ids, file)
       IN  /\ errs' = res[1]
           /\ warns' = res[2]
    /\ strict' = ~strict
    /\ errs0' = errs
    /\ warns0' = warns
    /\ pc' = "revalidated"
    /\ UNCHANGED <<prov_ids, name, file, value, accepted, RunVars>>

\* ok_iso_date(value)
OkIsoDateCall ==
    /\ pc = "idle"
    /\ \E i \in 1..Len(DateStrings) :
         /\ value' = DateStrings[i]
         /\ accepted' = ok_iso_date(DateStrings[i])
    /\ pc' = "dated"
    /\ UNCHANGED <<strict, prov_ids, name, file, errs, warns, errs0, warns0, RunVars>>

NextFile == ValidateFileCall \/ Revalidate \/ OkIsoDateCall

SpecFile == InitFile /\ [][NextFile]_vars

---------------------------------------------------------------------------
(* Spec: one run of validate_all. SpecProv: load_provenance_ids alone, on  *)
(* more provenance directories.                                            *)

\* Data rows of a sheet of sources.xlsx
MaxSheetRows == 2

SheetHeaders ==
    {<<"source_id", "title">>, <<"title", "id">>, <<"id", "title", "source_id">>,
     <<"title">>, <<None, " source_id ">>, <<>>}

SheetRows ==
    {<<"S-001", "S-002", "S-003">>, <<" S-002\t", "x", None>>, <<None, None, " ">>, <<"S-001">>}

Sheets ==
    {EmptySheet}
    \cup {Sheet(h, rows) : h \in SheetHeaders,
                           rows \in UNION {[1..k -> SheetRows] : k \in 0..MaxSheetRows}}

SourcesCsv ==
    {CsvFile(<<>>),
     CsvFile(<< <<"source_id", "title">> >>),
     CsvFile(<< <<"source_id", "title">>, <<"S-001", "a">>, <<" S-002 ", "b">>, <<"", "c">> >>),
     CsvFile(<< <<"title", " id">>, <<"a", "S-001">>, <<"b">> >>),
     CsvFile(<< <<"id", "source_id">>, <<"X-001", "S-002">> >>),
     CsvFile(<< <<"title">>, <<"a">> >>)}

\* The provenance directories of SpecProv
ProvDirs ==
    {Dir(Absent, x) : x \in Sheets \cup {NoSheet}}
    \cup {Dir(c, x) : c \in SourcesCsv,
                      x \in {NoSheet, Sheet(<<"source_id">>, << <<"S-009">> >>)}}

\* The provenance directories of Spec
RunProvDirs ==
    {NoDir,
     Dir(CsvFile(<< <<"source_id", "title">>, <<"S-001", "a">>, <<" S-002 ", "b">> >>), NoSheet),
     Dir(Absent, Sheet(<<"id">>, << <<"S-001">>, <<"S-002">> >>))}

\* The files of table n in Spec: missing, good, bad in every column, short
\* of a required column, good but for unknown source_id values
RunFiles(n) ==
    {Absent,
     Table(n, "full", 2, Good, 0),
     Table(n, "full", 2, Bad, 0),
     Table(n, "miss1", 1, Good, 0),
     Table(n, "full", 2, [Good EXCEPT !.ref = "unknown"], 0)}

InitRun(dirs) ==
    /\ pc = "start"
    /\ strict \in BOOLEAN
    /\ prov \in dirs
    /\ prov_ids = {}
    /\ idx = 0
    /\ rown = 0
    /\ failed = FALSE
    /\ pos = 0
    /\ returned = <<>>
    /\ all_errors = NoFindings
    /\ all_warnings = NoFindings
    /\ exit_code = 0
    /\ out = <<>>
    /\ name = None
    /\ file = Absent
    /\ errs = NoResult
    /\ warns = NoResult
    /\ errs0 = NoResult
    /\ warns0 = NoResult
    /\ value = None
    /\ accepted = FALSE

Init == InitRun(RunProvDirs)

InitProv == InitRun(ProvDirs)

FileVars == <<name, file, errs, warns, errs0, warns0, value, accepted>>

AllVars == <<pos, returned, all_errors, all_warnings, exit_code, out>>

\* lines 128-130: sources.csv if it exists, else sources.xlsx if it exists
LoadStart ==
    /\ pc = "start"
    /\ IF prov.csv.exists
       THEN prov_ids' = add_csv(prov.csv) /\ pc' = "loaded"
       ELSE IF prov.xlsx.exists
       THEN prov_ids' = prov_ids /\ pc' = "xlsx_open"
       ELSE prov_ids' = prov_ids /\ pc' = "loaded"
    /\ UNCHANGED <<strict, prov, idx, rown, failed, AllVars, FileVars>>

\* lines 132-134: openpyxl is imported and the workbook opened
XlsxOpen ==
    /\ pc = "xlsx_open"
    /\ pc' = "xlsx_header"
    /\ UNCHANGED <<strict, prov, prov_ids, idx, rown, failed, AllVars, FileVars>>

\* lines 135-141: the header row is read and the identifier column found;
\* next() of a sheet without rows raises StopIteration, which is caught
XlsxReadHeader ==
    /\ pc = "xlsx_header"
    /\ IF ~prov.xlsx.hasHeader
       THEN failed' = TRUE /\ pc' = "loaded" /\ UNCHANGED idx
       ELSE /\ idx' = IdColumn(XlsxHeader(prov.xlsx))
            /\ pc' = IF idx' # 0 THEN "xlsx_rows" ELSE "loaded"
            /\ UNCHANGED failed
    /\ rown' = 1
    /\ UNCHANGED <<strict, prov, prov_ids, AllVars, FileVars>>

\* lines 142-145: one row of the sheet; row[idx] of a row without that
\* cell raises IndexError, which is caught
XlsxReadRow ==
    /\ pc = "xlsx_rows"
    /\ IF rown > Len(prov.xlsx.rows)
       THEN pc' = "loaded" /\ UNCHANGED <<prov_ids, rown, failed>>
       ELSE LET row == prov.xlsx.rows[rown]
            IN  IF idx > Len(row)
                THEN failed' = TRUE /\ pc' = "loaded" /\ UNCHANGED <<prov_ids, rown>>
                ELSE /\ prov_ids' = IF row[idx] # None
                                    THEN prov_ids \cup {strip(row[idx])} ELSE prov_ids
                     /\ rown' = rown + 1
                     /\ UNCHANGED <<pc, failed>>
    /\ UNCHANGED <<strict, prov, idx, AllVars, FileVars>>

\* lines 146-147: any exception of the import, of opening the workbook or
\* of reading a row of it is caught, and ids is returned as it is
XlsxRaise ==
    /\ pc \in {"xlsx_open", "xlsx_header", "xlsx_rows"}
    /\ failed' = TRUE
    /\ pc' = "loaded"
    /\ UNCHANGED <<strict, prov, prov_ids, idx, rown, AllVars, FileVars>>

\* lines 298-304: validate_file on the next table of SCHEMAS.keys()
ValidateNext ==
    /\ pc = "loaded"
    /\ pos < Len(TableNames)
    /\ \E f \in RunFiles(TableNames[pos + 1]) :
         LET n   == TableNames[pos + 1]
             res == validate_file(n, strict, prov_ids, f)
         IN  /\ returned' = Append(returned, [name |-> n, errs |-> res[1], warns |-> res[2]])
             /\ exit_code' = ExitCode(exit_code, res[1])
             /\ all_errors' = Extend(all_errors, n, res[1])
             /\ all_warnings' = Extend(all_warnings, n, res[2])
    /\ pos' = pos + 1
    /\ UNCHANGED <<pc, strict, prov, prov_ids, idx, rown, failed, out, FileVars>>

\* lines 306-321: the report is printed and exit_code returned
Report ==
    /\ pc = "loaded"
    /\ pos = Len(TableNames)
    /\ out' = <<Line("VALIDATION REPORT", "", Plain(""))>>
              \o ReportLines(TableNames, all_errors, all_warnings)
              \o <<Line(IF exit_code = 0 THEN "All required checks passed."
                        ELSE "Validation failed. See errors above.", "", Plain(""))>>
    /\ pc' = "done"
    /\ UNCHANGED <<strict, prov, prov_ids, idx, rown, failed, pos, returned, all_errors,
                   all_warnings, exit_code, FileVars>>

Load == LoadStart \/ XlsxOpen \/ XlsxReadHeader \/ XlsxReadRow \/ XlsxRaise

Next == Load \/ ValidateNext \/ Report

Spec == Init /\ [][Next]_vars

NextProv == Load

SpecProv == InitProv /\ [][NextProv]_vars

---------------------------------------------------------------------------
(* Properties of validate_all (Spec) and load_provenance_ids (SpecProv) *)

\* Some validate_file call of the run returned an error
SomeErrorReturned == \E k \in 1..Len(returned) : returned[k].errs # <<>>

\* C1: validate_all returns 0 exactly when no validate_file call of the run
\* returned an error; warnings do not count.
C1_ExitStatus ==
    pc = "done" =>
        /\ exit_code \in {0, 1}
        /\ exit_code = 0 <=> ~SomeErrorReturned

\* A finished run with warnings and the exit status 0, after a table with
\* warnings and before one without findings
C1_Witness ==
    /\ pc = "done"
    /\ exit_code = 0
    /\ returned[3].warns # <<>>
    /\ returned[4].warns = <<>>

\* The lines the report has for one validate_file result: the table, its
\* errors in order or OK, its warnings in order
ExpectedLines(r) ==
    <<Line("table", r.name, Plain(""))>>
    \o (IF r.errs = <<>> THEN <<Line("OK", r.name, Plain(""))>>
        ELSE List([i \in 1..Len(r.errs) |-> Line("ERROR", r.name, r.errs[i])]))
    \o List([i \in 1..Len(r.warns) |-> Line("warning", r.name, r.warns[i])])

RECURSIVE ExpectedReport(_)
ExpectedReport(rs) ==
    IF rs = <<>> THEN <<>> ELSE ExpectedLines(Head(rs)) \o ExpectedReport(Tail(rs))

\* The tables validated so far are the first tables of the registry, in
\* order, and the report of a finished run lists their results in order
C5_InOrder ==
    /\ Len(returned) = pos
    /\ \A k \in 1..Len(returned) : returned[k].name = TableNames[k]
    /\ pc = "done" =>
          /\ Len(returned) = Len(TableNames)
          /\ SubSeq(out, 2, Len(out) - 1) = ExpectedReport(returned)

\* From the loop the run only goes on to the next table, whatever the
\* tables before it returned, and to the report after the last one
C5_NextTable ==
    /\ (pc = "loaded" /\ pos < Len(TableNames)) =>
          /\ pc' = "loaded"
          /\ pos' = pos + 1
          /\ returned' = Append(returned, returned'[pos'])
          /\ returned'[pos'].name = TableNames[pos']
    /\ (pc = "loaded" /\ pos = Len(TableNames)) => (pc' = "done" /\ returned' = returned)

\* C5: validate_file is called once per table of the registry, in registry
\* order; whatever the earlier tables returned the next table is validated;
\* a finished run has validated every table, and its report lists the tables
\* in registry order, each with its errors (or OK when it has none) and
\* then its warnings, in the order validate_file returned them.
C5_FullPass == []C5_InOrder /\ [][C5_NextTable]_vars

\* A finished run whose first table is missing, whose second has content
\* errors and whose last has warnings only
C5_Witness ==
    /\ pc = "done"
    /\ returned[1].errs[1].template = MissingFileMsg
    /\ Len(returned[2].errs) > 1
    /\ returned[5].errs = <<>>
    /\ returned[5].warns # <<>>

\* C10: a failure while sources.xlsx is read (the workbook cannot be opened,
\* the header or a row cannot be read) leaves the identifier index empty.
C10_EmptyIndexOnFailure ==
    (pc = "loaded" /\ failed) => prov_ids = {}

---------------------------------------------------------------------------
(* Properties of validate_file and ok_iso_date (SpecFile) *)

\* validate_file has been called on file, and errs and warns are its result
Called == pc \in {"validated", "revalidated"}

\* The rows of the table and its header as validate_file sees them
TheRows == read_csv(file)

TheHeader == IF TheRows = <<>> THEN <<>> ELSE TheRows[1].keys

\* The required columns absent from the header, in the order of the schema
RequiredMissing ==
    Filter(SCHEMAS[name].required, Range(SCHEMAS[name].required) \ Range(TheHeader))

\* The file is absent, has no rows or lacks a required column
StructuralFailure == ~file.exists \/ TheRows = <<>> \/ RequiredMissing # <<>>

\* The findings with one of the texts, and their number
Of(findings, texts) == {i \in 1..Len(findings) : findings[i].template \in texts}

NumOf(findings, texts) == Cardinality(Of(findings, texts))

\* The trimmed values of a column, row by row
Values(c) == Column(TheRows, c)

\* shown is the first 10, in sort order, of the set S
FirstTenSorted(shown, S) ==
    /\ Len(shown) = (IF Cardinality(S) > 10 THEN 10 ELSE Cardinality(S))
    /\ Range(shown) \subseteq S
    /\ \A i \in 1..(Len(shown) - 1) : StrLess(shown[i], shown[i + 1])
    /\ \A v \in S \ Range(shown) : \A w \in Range(shown) : StrLess(w, v)

\* The findings of the texts in findings are exactly one when S is not
\* empty and none when it is; it lists the first 10 of S in sort order and
\* has the ellipsis exactly when S has more than 10 values
OneListing(findings, texts, S) ==
    /\ NumOf(findings, texts) = (IF S # {} THEN 1 ELSE 0)
    /\ \A i \in Of(findings, texts) :
          /\ FirstTenSorted(findings[i].shown, S)
          /\ findings[i].more = (Cardinality(S) > 10)

\* C2: for a missing file, a file without rows or a table that lacks
\* required columns, validate_file returns exactly one error (for missing
\* columns one error naming all of them) and no warning: no later check
\* adds a finding.
C2_StructuralShortCircuit ==
    (Called /\ StructuralFailure) =>
        /\ Len(errs) = 1
        /\ warns = <<>>
        /\ errs[1].template = (IF ~file.exists THEN MissingFileMsg
                               ELSE IF TheRows = <<>> THEN NoRowsMsg
                               ELSE MissingColumnsMsg)
        /\ (file.exists /\ TheRows # <<>>) => errs[1].shown = RequiredMissing

\* A table that lacks two required columns and whose identifier column has
\* ill-formed values
C2_Witness ==
    /\ Called
    /\ file.exists
    /\ TheRows # <<>>
    /\ Len(RequiredMissing) = 2
    /\ errs[1].shown = RequiredMissing
    /\ SCHEMAS[name].id_col \in Range(TheHeader)
    /\ \E v \in Range(Values(SCHEMAS[name].id_col)) :
          v # "" /\ ~fullmatch(SCHEMAS[name].id_regex, v)

\* The table has a required source_id column
CrossReferenced == "source_id" \in Range(SCHEMAS[name].required)

\* The non-empty source_id values that are not in the index
Unresolved == {v \in Range(Values("source_id")) : v # "" /\ v \notin prov_ids}

CrossRefs(findings) == {findings[i] : i \in Of(findings, {CrossRefMsg})}

\* C3: for a cross-referenced table that passes the structural checks, a
\* non-empty source_id absent from a non-empty index gives exactly one
\* cross-reference finding, an error under strict and a warning otherwise,
\* the same finding in the two modes; an empty index gives none in either.
C3_CrossReference ==
    (Called /\ CrossReferenced /\ ~StructuralFailure) =>
        /\ (prov_ids # {} /\ Unresolved # {}) =>
              /\ NumOf(errs, {CrossRefMsg}) = (IF strict THEN 1 ELSE 0)
              /\ NumOf(warns, {CrossRefMsg}) = (IF strict THEN 0 ELSE 1)
        /\ prov_ids = {} =>
              /\ NumOf(errs, {CrossRefMsg}) = 0
              /\ NumOf(warns, {CrossRefMsg}) = 0
        /\ pc = "revalidated" =>
              CrossRefs(errs \o warns) = CrossRefs(errs0 \o warns0)

\* An unresolved source_id reported as a warning without strict and as an
\* error with it
C3_Witness ==
    /\ pc = "revalidated"
    /\ strict
    /\ CrossReferenced
    /\ ~StructuralFailure
    /\ prov_ids # {}
    /\ Unresolved # {}
    /\ NumOf(warns0, {CrossRefMsg}) = 1
    /\ NumOf(errs, {CrossRefMsg}) = 1

\* The cells of the data lines of the file that are written with leading or
\* trailing whitespace
PaddedCells ==
    {c \in (2..Len(file.lines)) \X (1..Len(file.lines[1])) :
        /\ c[2] <= Len(file.lines[c[1]])
        /\ file.lines[c[1]][c[2]] # strip(file.lines[c[1]][c[2]])}

\* C4: a table that passes the structural checks and has a cell written
\* with leading or trailing whitespace gets one whitespace warning, with
\* strict or without.
C4_WhitespaceWarning ==
    (Called /\ ~StructuralFailure /\ PaddedCells # {}) =>
        /\ NumOf(warns, {HygieneMsg}) = 1
        /\ NumOf(errs, {HygieneMsg}) = 0

\* The schema's identifier column is in the header of the file
IdInHeader ==
    /\ SCHEMAS[name].id_col # None
    /\ file.exists
    /\ file.lines # <<>>
    /\ SCHEMAS[name].id_col \in Range(Headers(file))

\* The declared pattern of the table's identifiers: the prefix, a hyphen
\* and three digits
MatchesDeclared(v) ==
    LET prefix == CASE name = T1   -> "T1-"
                    [] name = AppB -> "B-"
                    [] name = AppC -> "C-"
                    [] OTHER       -> "E-"
        n      == Len(prefix)
    IN  /\ Len(v) = n + 3
        /\ SubSeq(v, 1, n) = prefix
        /\ \A k \in (n + 1)..(n + 3) :
              Ch(v, k) \in {"0", "1", "2", "3", "4", "5", "6", "7", "8", "9"}

\* The identifier values of the rows, and the non-empty ones that fail the
\* declared pattern
IdValues == Values(SCHEMAS[name].id_col)

Offenders == {v \in Range(IdValues) : v # "" /\ ~MatchesDeclared(v)}

\* The format error is emitted exactly when there is an offender, once, and
\* lists only offenders, each at most once
FormatClaim ==
    /\ NumOf(errs, {FormatMsg}) = (IF Offenders # {} THEN 1 ELSE 0)
    /\ NumOf(warns, {FormatMsg}) = 0
    /\ \A i \in Of(errs, {FormatMsg}) :
          /\ Range(errs[i].shown) \subseteq Offenders
          /\ Cardinality(Range(errs[i].shown)) = Len(errs[i].shown)

\* C6 as stated: whenever the identifier column is in the header, a format
\* error is emitted if and only if a non-empty identifier fails the pattern,
\* at most once, listing only offenders.
C6_FormatWheneverPresent == (Called /\ IdInHeader) => FormatClaim

\* C6: for a table that passes the structural checks and has the
\* identifier column in its header, a format error is emitted if and only
\* if a non-empty identifier fails the declared pattern; it is emitted at
\* most once and lists only distinct values that fail the pattern.
C6_IdentifierFormat == (Called /\ IdInHeader /\ ~StructuralFailure) => FormatClaim

\* Matching, empty and ill-formed identifiers in one table: the error lists
\* the one ill-formed value
C6_Witness ==
    /\ Called
    /\ IdInHeader
    /\ ~StructuralFailure
    /\ "" \in Range(IdValues)
    /\ \E v \in Range(IdValues) : MatchesDeclared(v)
    /\ Cardinality(Offenders) = 1
    /\ \E i \in Of(errs, {FormatMsg}) : Range(errs[i].shown) = Offenders

\* The non-empty identifier values that occur in more than one row
Duplicated ==
    LET ids == IdValues
    IN  {v \in Range(ids) : v # "" /\ Cardinality({i \in 1..Len(ids) : ids[i] = v}) > 1}

DuplicateClaim ==
    /\ OneListing(errs, {DuplicateIdMsg}, Duplicated)
    /\ NumOf(warns, {DuplicateIdMsg}) = 0
    /\ Offenders = {} => NumOf(errs, {FormatMsg}) = 0

\* C7 as stated: whenever the identifier column is in the header, exactly
\* one duplicate-values error is emitted if and only if a non-empty
\* identifier occurs in more than one row.
C7_DuplicateWheneverPresent == (Called /\ IdInHeader) => DuplicateClaim

\* C7: for a table that passes the structural checks and has the
\* identifier column in its header, exactly one duplicate-values error is
\* emitted if and only if a non-empty identifier occurs in more than one
\* row; it lists the first 10 duplicated values in sort order, with the
\* ellipsis exactly when more than 10 are duplicated, and no format error
\* is emitted when every non-empty value matches the pattern.
C7_IdentifierUniqueness == (Called /\ IdInHeader /\ ~StructuralFailure) => DuplicateClaim

\* More than 10 well-formed identifiers duplicated: 10 shown, ellipsis
C7_Witness ==
    /\ Called
    /\ IdInHeader
    /\ ~StructuralFailure
    /\ Cardinality(Duplicated) > 10
    /\ Offenders = {}
    /\ \E i \in Of(errs, {DuplicateIdMsg}) : Len(errs[i].shown) = 10 /\ errs[i].more

\* The enumerated columns of the schema that are in the header of the file
EnumColumns ==
    IF ~file.exists \/ file.lines = <<>> THEN {}
    ELSE {e \in Range(SCHEMAS[name].enums) : e[1] \in Range(Headers(file))}

\* The non-empty values of a column outside the allowed set
Outside(e) == {v \in Range(Values(e[1])) : v # "" /\ v \notin e[2]}

EnumsOf(findings, c) ==
    {findings[i] : i \in {j \in Of(findings, {EnumMsg}) : findings[j].col = c}}

EnumClaim ==
    \A e \in EnumColumns :
        /\ Cardinality(EnumsOf(errs, e[1])) = (IF Outside(e) # {} THEN 1 ELSE 0)
        /\ NumOf(errs, {EnumMsg}) = Cardinality(EnumsOf(errs, e[1]))
        /\ NumOf(warns, {EnumMsg}) = 0
        /\ \A f \in EnumsOf(errs, e[1]) :
              /\ FirstTenSorted(f.shown, Outside(e))
              /\ f.more = (Cardinality(Outside(e)) > 10)
        /\ pc = "revalidated" => EnumsOf(errs0, e[1]) = EnumsOf(errs, e[1])

\* C8 as stated: for each enumerated column in the header, exactly one
\* error is emitted if and only if a non-empty value is outside the
\* allowed set.
C8_EnumWheneverPresent == Called => EnumClaim

\* C8: for a table that passes the structural checks, each enumerated
\* column in the header gets exactly one error if and only if a non-empty
\* value of it is outside the allowed set; the error lists the first 10 of
\* the distinct offending values in sort order, with the ellipsis when
\* there are more, and is an error with strict and without.
C8_EnumCheck == (Called /\ ~StructuralFailure) => EnumClaim

\* test_type with the value silver_bullet beside legal and empty values:
\* one error naming it, with strict on and off
C8_Witness ==
    /\ pc = "revalidated"
    /\ name = AppB
    /\ ~StructuralFailure
    /\ "" \in Range(Values("test_type"))
    /\ \E e \in EnumColumns :
          /\ Outside(e) = {"silver_bullet"}
          /\ \E f \in EnumsOf(errs, e[1]) : f.shown = <<"silver_bullet">>
          /\ EnumsOf(errs0, e[1]) = EnumsOf(errs, e[1])

\* The number a string of decimal digits writes, -1 for any other string
Number(s) ==
    IF s = "" \/ \E k \in 1..Len(s) :
                    Ch(s, k) \notin {"0", "1", "2", "3", "4", "5", "6", "7", "8", "9"}
    THEN -1
    ELSE LET digit(c) == CHOOSE d \in 0..9 : Ch(Digits, d + 1) = c
             RECURSIVE num(_)
             num(k) == IF k = 0 THEN 0 ELSE 10 * num(k - 1) + digit(Ch(s, k))
         IN  num(Len(s))

\* The days of a month of the Gregorian calendar
MonthLength(y, m) ==
    IF m = 2
    THEN (IF y % 400 = 0 \/ (y % 4 = 0 /\ y % 100 # 0) THEN 29 ELSE 28)
    ELSE <<31, 0, 31, 30, 31, 30, 31, 31, 30, 31, 30, 31>>[m]

\* s has the shape YYYY, YYYY-MM or YYYY-MM-DD with the year in 1..9999,
\* the month in 1..12 and the day valid for the month and year
IsIsoDate(s) ==
    LET y == Number(SubSeq(s, 1, 4))
        m == Number(SubSeq(s, 6, 7))
        d == Number(SubSeq(s, 9, 10))
    IN  /\ Len(s) \in {4, 7, 10}
        /\ y \in 1..9999
        /\ Len(s) >= 7 => (Ch(s, 5) = "-" /\ m \in 1..12)
        /\ Len(s) = 10 => (Ch(s, 8) = "-" /\ d >= 1 /\ d <= MonthLength(y, m))

\* The table has a date column, in the header of the file
DateInHeader ==
    /\ SCHEMAS[name].date_col # None
    /\ file.exists
    /\ file.lines # <<>>
    /\ SCHEMAS[name].date_col \in Range(Headers(file))

\* The distinct non-empty values of the date column that are no dates
Rejected ==
    {v \in Range(Values(SCHEMAS[name].date_col)) : v # "" /\ ~IsIsoDate(v)}

\* C9 as stated: ok_iso_date accepts exactly the strings of the shape
\* YYYY, YYYY-MM or YYYY-MM-DD that are calendar dates, and validate_file
\* puts all rejected values of the date column in one error.
C9_ExactShapeAllListed ==
    /\ pc = "dated" => (accepted <=> IsIsoDate(value))
    /\ (Called /\ DateInHeader) =>
          /\ NumOf(errs, {DateMsg}) = (IF Rejected # {} THEN 1 ELSE 0)
          /\ \A i \in Of(errs, {DateMsg}) : Range(errs[i].shown) = Rejected

\* C9: ok_iso_date accepts a string exactly when the string without its
\* leading and trailing whitespace has the shape YYYY, YYYY-MM or
\* YYYY-MM-DD with the year in 1..9999, the month in 1..12 and the day
\* valid for the month and year; for a table that passes the structural
\* checks validate_file emits exactly one date error if and only if some
\* non-empty value of the date column is rejected, listing the first 10
\* rejected values in sort order, with the ellipsis when there are more.
C9_IsoDate ==
    /\ pc = "dated" => (accepted <=> IsIsoDate(strip(value)))
    /\ (Called /\ DateInHeader /\ ~StructuralFailure) =>
          /\ OneListing(errs, {DateMsg}, Rejected)
          /\ NumOf(warns, {DateMsg}) = 0

\* 2023-02-30 and 2023-13 beside valid dates, both in the one date error
C9_Witness ==
    /\ Called
    /\ DateInHeader
    /\ ~StructuralFailure
    /\ "2023" \in Range(Values("date"))
    /\ Rejected = {"2023-02-30", "2023-13"}
    /\ NumOf(errs, {DateMsg}) = 1
    /\ \E i \in Of(errs, {DateMsg}) : errs[i].shown = <<"2023-02-30", "2023-13">>

\* The non-empty scope values outside the recommended set
UnknownScopes ==
    {v \in Range(Values("scope")) : v # "" /\ v \notin SCHEMAS[name].recommended_scopes}

\* The non-empty terms that occur in more than one row
DuplicatedTerms ==
    LET terms == Values(SCHEMAS[name].unique_col)
    IN  {v \in Range(terms) :
            v # "" /\ Cardinality({i \in 1..Len(terms) : terms[i] = v}) > 1}

\* The texts of the findings that list values
ListTexts ==
    {FormatMsg, DuplicateIdMsg, EnumMsg, DateMsg, RecommendedMsg, DuplicateTermMsg,
     CrossRefMsg}

\* The distinct offenders a list-producing finding is about
Listed(f) ==
    CASE f.template = FormatMsg        -> Offenders
      [] f.template = DuplicateIdMsg   -> Duplicated
      [] f.template = EnumMsg          -> UNION {Outside(e) : e \in {d \in EnumColumns : d[1] = f.col}}
      [] f.template = DateMsg          -> Rejected
      [] f.template = RecommendedMsg   -> UnknownScopes
      [] f.template = DuplicateTermMsg -> DuplicatedTerms
      [] OTHER                         -> Unresolved

\* f renders the first 10 of its sorted distinct offenders, and the
\* ellipsis exactly when there are more than 10
Truncated(f) ==
    LET S == Listed(f)
    IN  /\ Len(f.shown) <= 10
        /\ FirstTenSorted(f.shown, S)
        /\ f.more = (Cardinality(S) > 10)

\* C11: every finding of validate_file that lists values (identifier
\* format, identifier duplicates, enum, dates, recommended values,
\* duplicate terms, cross-references) renders at most 10 values, the first
\* 10 of the sorted distinct offenders, with the ellipsis exactly when
\* there are more than 10.
C11_TruncationEverywhere ==
    Called =>
        \A i \in Of(errs \o warns, ListTexts) : Truncated((errs \o warns)[i])

\* The results of the two runs of validate_file on the same table and
\* index: with strict on and with strict off
ErrsOn == IF strict THEN errs ELSE errs0

WarnsOn == IF strict THEN warns ELSE warns0

ErrsOff == IF strict THEN errs0 ELSE errs

WarnsOff == IF strict THEN warns0 ELSE warns

\* The findings of a list other than the cross-reference one, in order
Others(findings) ==
    Filter(findings, {f \in Range(findings) : f.template # CrossRefMsg})

\* a is b with some findings left out
RECURSIVE IsSubList(_, _)
IsSubList(a, b) ==
    IF a = <<>> THEN TRUE
    ELSE IF b = <<>> THEN FALSE
    ELSE IF Head(a) = Head(b) THEN IsSubList(Tail(a), Tail(b))
    ELSE IsSubList(a, Tail(b))

\* C12: validate_file run with strict on and with strict off on the same
\* table and index yields the same set of findings; every finding other
\* than the cross-reference one is in the same list at the same relative
\* position in both runs; the whitespace finding is never an error; the
\* errors without strict are a sub-list of the errors with strict; and for
\* a table without cross-reference check the two results are the same.
C12_StrictMovesCrossRefOnly ==
    pc = "revalidated" =>
        /\ Range(ErrsOn \o WarnsOn) = Range(ErrsOff \o WarnsOff)
        /\ Others(ErrsOn) = Others(ErrsOff)
        /\ Others(WarnsOn) = Others(WarnsOff)
        /\ NumOf(ErrsOn, {CrossRefMsg}) = NumOf(WarnsOff, {CrossRefMsg})
        /\ NumOf(WarnsOn, {CrossRefMsg}) = 0
        /\ NumOf(ErrsOff, {CrossRefMsg}) = 0
        /\ NumOf(ErrsOn \o ErrsOff, {HygieneMsg}) = 0
        /\ IsSubList(ErrsOff, ErrsOn)
        /\ ~CrossReferenced => (ErrsOn = ErrsOff /\ WarnsOn = WarnsOff)

\* A cross-referenced table with content errors and an unresolved
\* source_id: the cross-reference finding is the only warning without
\* strict and the last error with it
C12_Witness ==
    /\ pc = "revalidated"
    /\ CrossReferenced
    /\ ~StructuralFailure
    /\ Len(ErrsOff) >= 2
    /\ NumOf(WarnsOff, {CrossRefMsg}) = 1
    /\ WarnsOn = <<>>
    /\ ErrsOn = ErrsOff \o WarnsOff

=============================================================================
